---- MODULE Spec2Model ----
(***************************************************************************)
(* Layout type model (fields.py) and the dump ingestion done by            *)
(* dump_struct_layout (tests/test_struct_layout.py).                       *)
(*                                                                         *)
(* A Python object is a record whose cls field is its class; the other     *)
(* fields are the attributes its __init__ sets.  A raised exception is a   *)
(* record whose cls is the exception class.                                *)
(***************************************************************************)
EXTENDS Integers, Sequences, FiniteSets, TLC

VARIABLES reg, res, raised, pc, source, target, form, dump, structs, returned, effects, looked

vars == <<reg, res, raised, pc, source, target, form, dump, structs, returned, effects, looked>>

ingestVars == <<pc, source, target, form, dump, structs, returned, effects, looked>>

(***************************************************************************)
(* Bounds and input sets                                                   *)
(***************************************************************************)
MaxSize == 1

MaxElem == 1

MaxWraps == 2

MaxAggs == 3

Sizes == -1 .. MaxSize

Counts == 0 .. MaxElem

TypeNames == {"int", "char"}

RefNames == {"a", "b"}

None == [cls |-> "None"]

Exceptions == {"TypeError", "NameError", "KeyError", "SyntaxError"}

Raise(e) == [cls |-> e]

IsErr(v) == v.cls \in Exceptions

(***************************************************************************)
(* fields.py: the constructors.  args is the tuple of positional arguments  *)
(* of the call; a call whose argument count does not fit the signature of   *)
(* __init__ raises TypeError, as Python does.                               *)
(***************************************************************************)
Type_init(cls, args) ==
    IF Len(args) # 1 THEN Raise("TypeError")
    ELSE [cls |-> cls, total_size |-> args[1]]

Void_init(args) ==
    IF Len(args) # 0 THEN Raise("TypeError")
    ELSE Type_init("Void", <<0>>)

Bitfield_init(args) ==
    IF Len(args) # 1 THEN Raise("TypeError")
    ELSE Type_init("Bitfield", <<args[1]>>)

Scalar_init(args) ==
    IF Len(args) # 2 THEN Raise("TypeError")
    ELSE LET base == Type_init("Scalar", <<args[1]>>)
         IN  IF IsErr(base) THEN base
             ELSE [cls |-> "Scalar", total_size |-> base.total_size, type |-> args[2]]

\* Mutant: the constructor resolves the referenced name when it is called, in a
\* registry that holds no aggregate yet.
StructField_init_Eager(args) ==
    IF Len(args) # 2 THEN Raise("TypeError") ELSE Raise("KeyError")

StructField_init(args) ==
    IF Len(args) # 2 THEN Raise("TypeError")
    ELSE LET base == Type_init("StructField", <<args[1]>>)
         IN  IF IsErr(base) THEN base
             ELSE [cls |-> "StructField", total_size |-> base.total_size, type |-> args[2]]

UnionField_init(args) ==
    IF Len(args) # 2 THEN Raise("TypeError")
    ELSE LET base == Type_init("UnionField", <<args[1]>>)
         IN  IF IsErr(base) THEN base
             ELSE [cls |-> "UnionField", total_size |-> base.total_size, type |-> args[2]]

\* Function.__init__ hands both of its arguments on to Type.__init__.
Function_init(args) ==
    IF Len(args) # 2 THEN Raise("TypeError")
    ELSE LET base == Type_init("Function", <<args[1], args[2]>>)
         IN  IF IsErr(base) THEN base
             ELSE [cls |-> "Function", total_size |-> base.total_size, type |-> args[2]]

Pointer_init(args) ==
    IF Len(args) # 2 THEN Raise("TypeError")
    ELSE LET base == Type_init("Pointer", <<args[1]>>)
         IN  IF IsErr(base) THEN base
             ELSE [cls |-> "Pointer", total_size |-> base.total_size,
                   pointed_type |-> args[2]]

Array_init(args) ==
    IF Len(args) # 3 THEN Raise("TypeError")
    ELSE LET base == Type_init("Array", <<args[1]>>)
         IN  IF IsErr(base) THEN base
             ELSE [cls |-> "Array", total_size |-> base.total_size,
                   num_elem |-> args[2], elem_type |-> args[3]]

\* The call cls(args...).
Call(cls, args) ==
    CASE cls = "Type"        -> Type_init("Type", args)
      [] cls = "Void"        -> Void_init(args)
      [] cls = "Bitfield"    -> Bitfield_init(args)
      [] cls = "Scalar"      -> Scalar_init(args)
      [] cls = "StructField" -> StructField_init(args)
      [] cls = "UnionField"  -> UnionField_init(args)
      [] cls = "Function"    -> Function_init(args)
      [] cls = "Pointer"     -> Pointer_init(args)
      [] cls = "Array"       -> Array_init(args)

(***************************************************************************)
(* fields.py: the __eq__ methods.  Each returns "True", "False" or          *)
(* "NotImplemented".  Every class derives from Type directly, so            *)
(* isinstance(v, C) holds when v's class is C, or C is Type.                *)
(***************************************************************************)
IsInstance(v, cls) == v.cls = cls \/ cls = "Type"

Bool(b) == IF b THEN "True" ELSE "False"

RECURSIVE PyEq(_, _)

Type_eq(self, other) ==
    IF ~IsInstance(other, "Type") THEN "NotImplemented"
    ELSE Bool(self.total_size = other.total_size)

Void_eq(self, other) ==
    IF ~IsInstance(other, "Void") THEN "NotImplemented"
    ELSE Type_eq(self, other)

Bitfield_eq(self, other) ==
    IF ~IsInstance(other, "Bitfield") THEN "NotImplemented"
    ELSE Type_eq(self, other)

Scalar_eq(self, other) ==
    IF ~IsInstance(other, "Scalar") THEN "NotImplemented"
    ELSE IF self.type # other.type THEN "False" ELSE Type_eq(self, other)

\* Mutant: the isinstance test is made against Type.
StructField_eq_AnyField(self, other) ==
    IF ~IsInstance(other, "Type") THEN "NotImplemented"
    ELSE IF self.type # other.type THEN "False" ELSE Type_eq(self, other)

StructField_eq(self, other) ==
    IF ~IsInstance(other, "StructField") THEN "NotImplemented"
    ELSE IF self.type # other.type THEN "False" ELSE Type_eq(self, other)

UnionField_eq(self, other) ==
    IF ~IsInstance(other, "UnionField") THEN "NotImplemented"
    ELSE IF self.type # other.type THEN "False" ELSE Type_eq(self, other)

Function_eq(self, other) ==
    IF ~IsInstance(other, "Function") THEN "NotImplemented"
    ELSE Type_eq(self, other)

Pointer_eq(self, other) ==
    IF ~IsInstance(other, "Pointer") THEN "NotImplemented"
    ELSE IF ~PyEq(self.pointed_type, other.pointed_type) THEN "False"
         ELSE Type_eq(self, other)

Array_eq(self, other) ==
    IF ~IsInstance(other, "Array") THEN "NotImplemented"
    ELSE IF self.num_elem # other.num_elem THEN "False"
         ELSE IF ~PyEq(self.elem_type, other.elem_type) THEN "False"
              ELSE Type_eq(self, other)

\* self.__eq__(other), dispatched on the class of self.
Eq_method(self, other) ==
    CASE self.cls = "Type"        -> Type_eq(self, other)
      [] self.cls = "Void"        -> Void_eq(self, other)
      [] self.cls = "Bitfield"    -> Bitfield_eq(self, other)
      [] self.cls = "Scalar"      -> Scalar_eq(self, other)
      [] self.cls = "StructField" -> StructField_eq(self, other)
      [] self.cls = "UnionField"  -> UnionField_eq(self, other)
      [] self.cls = "Function"    -> Function_eq(self, other)
      [] self.cls = "Pointer"     -> Pointer_eq(self, other)
      [] self.cls = "Array"       -> Array_eq(self, other)

(***************************************************************************)
(* The expression a == b as Python evaluates it for these classes: when     *)
(* b's class is a proper subclass of a's (a is a plain Type, b is not) and  *)
(* overrides __eq__, b.__eq__(a) is tried first; otherwise a.__eq__(b),     *)
(* then b.__eq__(a).  When both return NotImplemented the objects are       *)
(* compared by identity; that happens only for objects of different         *)
(* classes, which are never the same object.                                *)
(***************************************************************************)
PyEq(a, b) ==
    LET first  == IF a.cls = "Type" /\ b.cls # "Type" THEN Eq_method(b, a)
                  ELSE Eq_method(a, b)
        second == IF a.cls = "Type" /\ b.cls # "Type" THEN Eq_method(a, b)
                  ELSE Eq_method(b, a)
    IN  IF first # "NotImplemented" THEN first = "True"
        ELSE IF second # "NotImplemented" THEN second = "True"
             ELSE FALSE

RECURSIVE Wraps(_)

\* Nesting depth of a value: the number of Pointer and Array calls around it.
Wraps(v) ==
    CASE v.cls = "Pointer" -> 1 + Wraps(v.pointed_type)
      [] v.cls = "Array"   -> 1 + Wraps(v.elem_type)
      [] OTHER             -> 0

RECURSIVE ValueRef(_)

\* The aggregate name a field type refers to ("none" when it refers to none).
ValueRef(v) ==
    CASE v.cls \in {"StructField", "UnionField"} -> v.type
      [] v.cls = "Pointer"                        -> ValueRef(v.pointed_type)
      [] v.cls = "Array"                          -> ValueRef(v.elem_type)
      [] OTHER                                    -> "none"

RECURSIVE Parts(_)

\* A value and the values it owns.
Parts(v) ==
    CASE v.cls = "Pointer" -> {v} \cup Parts(v.pointed_type)
      [] v.cls = "Array"   -> {v} \cup Parts(v.elem_type)
      [] v.cls = "None"    -> {}
      [] OTHER             -> {v}

(***************************************************************************)
(* Type model: a caller builds values into the registers x, y (and z) and   *)
(* compares them.  An exception raised by a constructor is not caught: it   *)
(* ends the run and the caller's values are gone.                           *)
(***************************************************************************)
NoRaise == [cls |-> "none", call |-> "none", nargs |-> 0]

NoRes == [l |-> "none", r |-> "none", v |-> FALSE]

NoRegs == [x |-> None, y |-> None, z |-> None]

\* What a caller of dump_struct_layout holds: nothing yet, or the returned table.
NoReturn == [given |-> FALSE, table |-> <<>>]

\* r = cls(args...), r not bound yet or bound to one of args: binds r, or raises.
Construct(r, cls, args) ==
    LET v == Call(cls, args)
    IN  /\ raised = NoRaise
        /\ pc = "idle"
        /\ IF IsErr(v)
           THEN /\ raised' = [cls |-> v.cls, call |-> cls, nargs |-> Len(args)]
                /\ reg' = NoRegs
           ELSE /\ raised' = raised
                /\ reg' = [reg EXCEPT ![r] = v]
        /\ res' = NoRes
        /\ UNCHANGED ingestVars

NewType(r) == reg[r] = None /\ \E s \in Sizes : Construct(r, "Type", <<s>>)

NewVoid(r) == reg[r] = None /\ Construct(r, "Void", <<>>)

NewBitfield(r) == reg[r] = None /\ \E s \in Sizes : Construct(r, "Bitfield", <<s>>)

NewScalar(r) ==
    reg[r] = None /\ \E s \in Sizes, n \in TypeNames : Construct(r, "Scalar", <<s, n>>)

\* Scalar(total_size, type_name, is_signed), as the tests call it.
NewScalarSigned(r) ==
    /\ reg[r] = None
    /\ \E s \in Sizes, n \in TypeNames, sg \in BOOLEAN : Construct(r, "Scalar", <<s, n, sg>>)

NewStructField(r) ==
    reg[r] = None /\ \E s \in Sizes, n \in RefNames : Construct(r, "StructField", <<s, n>>)

NewUnionField(r) ==
    reg[r] = None /\ \E s \in Sizes, n \in RefNames : Construct(r, "UnionField", <<s, n>>)

\* Function(), as the tests call it.
NewFunction(r) == reg[r] = None /\ Construct(r, "Function", <<>>)

\* Function(total_size, type_), as __init__ declares it.
NewFunctionArgs(r) ==
    reg[r] = None /\ \E s \in Sizes, n \in TypeNames : Construct(r, "Function", <<s, n>>)

\* r = Pointer(s, r): the pointee is the value r holds.
NewPointer(r) ==
    /\ reg[r] # None
    /\ Wraps(reg.x) + Wraps(reg.y) < MaxWraps
    /\ \E s \in Sizes : Construct(r, "Pointer", <<s, reg[r]>>)

\* r = Array(s, n, r): the element type is the value r holds.
NewArray(r) ==
    /\ reg[r] # None
    /\ Wraps(reg.x) + Wraps(reg.y) < MaxWraps
    /\ \E s \in Sizes, n \in Counts : Construct(r, "Array", <<s, n, reg[r]>>)

\* a == b on two bound registers.
Compare(a, b) ==
    /\ raised = NoRaise
    /\ pc = "idle"
    /\ reg[a] # None /\ reg[b] # None
    /\ res' = [l |-> a, r |-> b, v |-> PyEq(reg[a], reg[b])]
    /\ UNCHANGED <<reg, raised>>
    /\ UNCHANGED ingestVars

InitIdle ==
    /\ pc = "idle"
    /\ source = <<>>
    /\ target = "none"
    /\ form = "none"
    /\ dump = <<>>
    /\ structs = <<>>
    /\ returned = NoReturn
    /\ effects = FALSE
    /\ looked = "none"

Init ==
    /\ reg = NoRegs
    /\ res = NoRes
    /\ raised = NoRaise
    /\ InitIdle

Next ==
    \/ \E r \in {"x", "y"} :
          \/ NewVoid(r)
          \/ NewBitfield(r)
          \/ NewScalar(r)
          \/ NewScalarSigned(r)
          \/ NewStructField(r)
          \/ NewUnionField(r)
          \/ NewFunction(r)
          \/ NewFunctionArgs(r)
          \/ NewPointer(r)
          \/ NewArray(r)
    \/ Compare("x", "y")

Spec == Init /\ [][Next]_vars

\* Three values without nesting, instances of the base class Type among them, and
\* every comparison among them.
Next3 ==
    \/ \E r \in {"x", "y", "z"} :
          \/ NewType(r)
          \/ NewVoid(r)
          \/ NewBitfield(r)
          \/ NewScalar(r)
          \/ NewStructField(r)
          \/ NewUnionField(r)
    \/ \E a, b \in {"x", "y", "z"} : Compare(a, b)

Spec3 == Init /\ [][Next3]_vars

(***************************************************************************)
(* Layout (Struct) and the Layout Table.  fields.py holds no Struct class;  *)
(* it is modelled from the specification's data model: a total size and a   *)
(* mapping from field name to (offset, type).  Every aggregate of the model *)
(* has the one field f at offset 0.                                         *)
(***************************************************************************)
Struct_init(args) ==
    IF Len(args) # 2 THEN Raise("TypeError")
    ELSE [cls |-> "Struct", total_size |-> args[1], fields |-> args[2]]

NameOf == <<"a", "b", "c", "d", "e">>

Names == {NameOf[i] : i \in 1 .. MaxAggs}

Undeclared == "zz"

EmptyTable == <<>>

\* structs[n] = v, as the dump's binding statement does it.
StoreBinding(tbl, n, v) ==
    [m \in DOMAIN tbl \cup {n} |-> IF m = n THEN v ELSE tbl[m]]

RemoveBinding(tbl, n) == [m \in DOMAIN tbl \ {n} |-> tbl[m]]

(***************************************************************************)
(* A comparison of two field types while a Layout Table exists: the caller  *)
(* holds StructField and UnionField values in x and y, and the table gains  *)
(* and loses aggregates, among them aggregates that refer to themselves.    *)
(***************************************************************************)
BindLayout(n, m) ==
    /\ pc = "idle"
    /\ raised = NoRaise
    /\ structs' = StoreBinding(structs, n,
                     Struct_init(<<1, [f |-> <<0, StructField_init(<<1, m>>)>>]>>))
    /\ UNCHANGED <<reg, res, raised, pc, source, target, form, dump, returned, effects, looked>>

UnbindLayout(n) ==
    /\ pc = "idle"
    /\ raised = NoRaise
    /\ n \in DOMAIN structs
    /\ structs' = RemoveBinding(structs, n)
    /\ UNCHANGED <<reg, res, raised, pc, source, target, form, dump, returned, effects, looked>>

NextRef ==
    \/ \E r \in {"x", "y"} : NewStructField(r) \/ NewUnionField(r)
    \/ Compare("x", "y")
    \/ \E n, m \in RefNames : BindLayout(n, m)
    \/ \E n \in RefNames : UnbindLayout(n)

SpecRef == Init /\ [][NextRef]_vars

(***************************************************************************)
(* The dump: one binding per emitted aggregate, structs[name] =             *)
(* Struct(size, {f: (0, <term>)}), where a term is a constructor call       *)
(* ctor(lits...) or ctor(lits..., sub term).                                  *)
(***************************************************************************)
NoTerm == [ctor |-> "none"]

Term(ctor, lits, sub) == [ctor |-> ctor, lits |-> lits, sub |-> sub]

ScalarTerm == Term("Scalar", <<1, "int">>, NoTerm)

StructFieldTerm(n) == Term("StructField", <<1, n>>, NoTerm)

UnionFieldTerm(n) == Term("UnionField", <<1, n>>, NoTerm)

FunctionPointerTerm == Term("Pointer", <<1>>, Term("Function", <<>>, NoTerm))

\* A reference to aggregate n: by value, through a pointer, or as an array element.
RefTerm(wrap, n) ==
    CASE wrap = "direct"  -> StructFieldTerm(n)
      [] wrap = "Pointer" -> Term("Pointer", <<1>>, StructFieldTerm(n))
      [] wrap = "Array"   -> Term("Array", <<1, 1>>, StructFieldTerm(n))

Wrappers == {"direct", "Pointer", "Array"}

FieldTerms(wrap) ==
    {ScalarTerm, FunctionPointerTerm, UnionFieldTerm(NameOf[1]),
     Term("Pointer", <<1>>, StructFieldTerm(Undeclared))}
        \cup {RefTerm(wrap, n) : n \in Names}

RECURSIVE TermRefs(_)

\* The aggregate names a term refers to.
TermRefs(t) ==
    CASE t.ctor \in {"StructField", "UnionField"} -> {t.lits[2]}
      [] t.ctor \in {"Pointer", "Array"}          -> TermRefs(t.sub)
      [] OTHER                                    -> {}

RECURSIVE Closure(_, _, _)

\* The external tool's selection: the aggregates of src to emit for the names
\* in frontier, given those already selected.
Closure(src, frontier, seen) ==
    IF frontier = {} THEN seen
    ELSE LET n    == CHOOSE m \in frontier : TRUE
             new  == IF n \in DOMAIN src /\ n \notin seen
                     THEN TermRefs(src[n]) \ (seen \cup {n}) ELSE {}
             seen2 == IF n \in DOMAIN src THEN seen \cup {n} ELSE seen
         IN  Closure(src, (frontier \ {n}) \cup new, seen2)

\* Mutant: the tool ignores the target name.
ToolOutput_IgnoreTarget(src, tgt) == [n \in DOMAIN src |-> src[n]]

\* What the tool emits for a translation unit and an optional target name.
ToolOutput(src, tgt) ==
    LET emitted == IF tgt = "none" THEN DOMAIN src ELSE Closure(src, {tgt}, {})
    IN  [n \in emitted |-> src[n]]

(***************************************************************************)
(* dump_struct_layout: exec(struct_def, load_globals), then                 *)
(* return load_globals["structs"].                                          *)
(***************************************************************************)
LoadGlobals ==
    {"Scalar", "Bitfield", "Void", "Function", "StructField", "Pointer", "Array", "Struct"}

RECURSIVE EvalTerm(_)

\* Python's evaluation of a call: the callee's name is looked up, then the
\* arguments are evaluated, then the call is made.
EvalTerm(t) ==
    IF t.ctor \notin LoadGlobals THEN Raise("NameError")
    ELSE IF t.sub = NoTerm THEN Call(t.ctor, t.lits)
         ELSE LET inner == EvalTerm(t.sub)
              IN  IF IsErr(inner) THEN inner
                  ELSE Call(t.ctor, Append(t.lits, inner))

\* The right-hand side of a binding: Struct(1, {"f": (0, term)}).
EvalBinding(t) ==
    IF "Struct" \notin LoadGlobals THEN Raise("NameError")
    ELSE LET v == EvalTerm(t)
         IN  IF IsErr(v) THEN v ELSE Struct_init(<<1, [f |-> <<0, v>>]>>)

\* Mutant: the mapping built so far is handed back when exec raises.
OnException_Partial(tbl) == [given |-> TRUE, table |-> tbl]

\* What the caller holds after exec raised: the exception leaves
\* dump_struct_layout and no value is returned.
OnException(tbl) == NoReturn

\* return load_globals["structs"]
ReturnValue(tbl) == [given |-> TRUE, table |-> tbl]

InitIngest ==
    /\ reg = NoRegs
    /\ res = NoRes
    /\ raised = NoRaise
    /\ pc = "exec"
    /\ \E wrap \in Wrappers : source \in [Names -> FieldTerms(wrap)]
    /\ target \in Names \cup {"none"}
    /\ form \in {"bindings", "foreign", "garbage"}
    /\ dump = ToolOutput(source, target)
    /\ structs = EmptyTable
    /\ returned = NoReturn
    /\ effects = FALSE
    /\ looked = "none"

\* exec meets a text that is no Python at all.
ExecGarbage ==
    /\ pc = "exec"
    /\ form = "garbage"
    /\ pc' = "failed"
    /\ raised' = [cls |-> "SyntaxError", call |-> "exec", nargs |-> 0]
    /\ returned' = OnException(structs)
    /\ UNCHANGED <<reg, res, source, target, form, dump, structs, effects, looked>>

\* exec runs the binding of aggregate n, in whatever order the dump lists them.
ExecBinding(n) ==
    /\ pc = "exec"
    /\ form # "garbage"
    /\ n \in DOMAIN dump \ DOMAIN structs
    /\ LET v == EvalBinding(dump[n])
       IN  IF IsErr(v)
           THEN /\ pc' = "failed"
                /\ raised' = [cls |-> v.cls, call |-> "exec", nargs |-> 0]
                /\ returned' = OnException(structs)
                /\ UNCHANGED structs
           ELSE /\ structs' = StoreBinding(structs, n, v)
                /\ UNCHANGED <<pc, raised, returned>>
    /\ UNCHANGED <<reg, res, source, target, form, dump, effects, looked>>

\* exec runs a statement of the dump that is no binding (say an import and a
\* call into the operating system), here the dump's last one.
ExecForeign ==
    /\ pc = "exec"
    /\ form = "foreign"
    /\ DOMAIN structs = DOMAIN dump
    /\ ~effects
    /\ effects' = TRUE
    /\ UNCHANGED <<reg, res, raised, pc, source, target, form, dump, structs, returned, looked>>

\* exec has run every statement: return load_globals["structs"].
Return ==
    /\ pc = "exec"
    /\ form # "garbage"
    /\ DOMAIN structs = DOMAIN dump
    /\ form = "foreign" => effects
    /\ returned' = ReturnValue(structs)
    /\ pc' = "done"
    /\ UNCHANGED <<reg, res, raised, source, target, form, dump, structs, effects, looked>>

\* The caller follows the reference held by aggregate n's field:
\* structs[b["a"][1].type]
Lookup(n) ==
    /\ pc = "done"
    /\ n \in DOMAIN returned.table
    /\ LET r == ValueRef(returned.table[n].fields.f[2])
       IN  /\ r # "none"
           /\ IF r \in DOMAIN returned.table
              THEN /\ looked' = r
                   /\ UNCHANGED <<pc, raised>>
              ELSE /\ pc' = "lookup_failed"
                   /\ raised' = [cls |-> "KeyError", call |-> "lookup", nargs |-> 0]
                   /\ UNCHANGED looked
    /\ UNCHANGED <<reg, res, source, target, form, dump, structs, returned, effects>>

NextIngest ==
    \/ ExecGarbage
    \/ \E n \in Names : ExecBinding(n)
    \/ ExecForeign
    \/ Return
    \/ \E n \in Names : Lookup(n)

SpecIngest == InitIngest /\ [][NextIngest]_vars

(***************************************************************************)
(* Claims about the type model                                              *)
(***************************************************************************)
RECURSIVE StructurallyEqual(_, _)

\* Same variant, same total size, same variant-specific attributes.
StructurallyEqual(a, b) ==
    /\ a.cls = b.cls
    /\ a.total_size = b.total_size
    /\ CASE a.cls \in {"Scalar", "StructField", "UnionField"} -> a.type = b.type
         [] a.cls = "Pointer" -> StructurallyEqual(a.pointed_type, b.pointed_type)
         [] a.cls = "Array"   -> /\ a.num_elem = b.num_elem
                                 /\ StructurallyEqual(a.elem_type, b.elem_type)
         [] OTHER             -> TRUE

Held == {reg.x, reg.y, reg.z} \ {None}

\* C1: a Scalar is built from a size, a type name and a signedness, and a == b
\* holds exactly when a and b, built from the variant constructors, are the same
\* variant with equal sizes and equal attributes.
C1_EqualityIsStructural ==
    /\ ~(raised.call = "Scalar" /\ raised.nargs = 3)
    /\ res # NoRes => (res.v = StructurallyEqual(reg[res.l], reg[res.r]))

\* C2: equality is reflexive, symmetric and transitive over all values a caller
\* can construct, plain Type instances included.
C2_EqualityIsEquivalence ==
    \A a, b, c \in Held :
        /\ PyEq(a, a)
        /\ PyEq(a, b) = PyEq(b, a)
        /\ (PyEq(a, b) /\ PyEq(b, c)) => PyEq(a, c)

\* C3: every Array value that exists has total_size = num_elem * elem_type.total_size.
C3_ArraySizeIsProduct ==
    \A r \in {"x", "y"} : \A v \in Parts(reg[r]) :
        v.cls = "Array" => v.total_size = v.num_elem * v.elem_type.total_size

\* C4: every Type value that exists, owned values included, has total_size >= 0.
C4_SizeIsNonNegative ==
    \A r \in {"x", "y"} : \A v \in Parts(reg[r]) : v.total_size >= 0

\* C6: the call Function() succeeds.
C6_FunctionConstructs == ~(raised.call = "Function" /\ raised.nargs = 0)

\* C5: equality of two StructField or two UnionField values is equality of the
\* referenced name and of the total size, whatever the Layout Table holds; a
\* StructField and a UnionField are never equal.
C5_ReferenceEquality ==
    res # NoRes =>
        LET a == reg[res.l]
            b == reg[res.r]
        IN  res.v = (a.cls = b.cls /\ a.type = b.type /\ a.total_size = b.total_size)

\* Two equal StructFields were compared while the table binds their name to an
\* aggregate that refers to itself, and the other name is absent from the table.
C5_Witness ==
    /\ res # NoRes
    /\ res.v
    /\ reg.x.cls = "StructField"
    /\ reg.x.type \in DOMAIN structs
    /\ ValueRef(structs[reg.x.type].fields.f[2]) = reg.x.type
    /\ RefNames \ DOMAIN structs # {}

(***************************************************************************)
(* Claims about ingestion                                                   *)
(***************************************************************************)
RECURSIVE Iterate(_, _, _)

\* The names reached from S in at most k reference steps inside src.
Iterate(src, S, k) ==
    IF k = 0 THEN S
    ELSE Iterate(src, S \cup UNION {TermRefs(src[m]) \cap DOMAIN src : m \in S}, k - 1)

RECURSIVE TermCtors(_)

TermCtors(t) ==
    IF t = NoTerm THEN {} ELSE {t.ctor} \cup TermCtors(t.sub)

\* C7: with a target name the returned table holds exactly the aggregates reachable
\* from it; with none, every aggregate of the source.
C7_OnlyNecessary ==
    pc = "done" =>
        DOMAIN returned.table =
            IF target = "none" THEN DOMAIN source
            ELSE Iterate(source, {target} \cap DOMAIN source, MaxAggs)

\* A filtered ingestion returned the target, an aggregate it refers to, and left
\* an aggregate of the source out.
C7_Witness ==
    /\ pc = "done"
    /\ target # "none"
    /\ Cardinality(DOMAIN returned.table) >= 2
    /\ DOMAIN source \ DOMAIN returned.table # {}

C9_AllOrNothing ==
    /\ pc = "failed" => ~returned.given
    /\ returned.given => DOMAIN returned.table = DOMAIN dump

\* exec raised after it had bound at least one aggregate.
C9_Witness ==
    /\ pc = "failed"
    /\ DOMAIN structs # {}
    /\ ~returned.given

\* C10: every listed constructor is available to the dump, a dump with a foreign
\* statement is rejected, and executing a dump has no effect beyond the mapping.
C10_DumpIsData ==
    /\ ~effects
    /\ raised.cls # "NameError"
    /\ pc = "done" => form = "bindings"

====
